---- MODULE Spec2Model ----
(***************************************************************************)
(* Model of src/regressor.py: GaussianProcessRegressor, a toy 1-d Gaussian *)
(* process regressor.                                                      *)
(*                                                                         *)
(* Numbers.  An ndarray is a record [shape, data, den]: `shape` is the     *)
(* numpy shape, `data` the entries in row-major order as integers and      *)
(* `den` one common denominator, so every entry is the exact rational      *)
(* data[i] / den.  Floating-point rounding is not modelled.                *)
(* None is the record NoneVal; a raised exception is a record [raised].    *)
(***************************************************************************)
EXTENDS Integers, Sequences, FiniteSets, TLC

----------------------------------------------------------------------------
(* Bounds of the model *)

\* longest training / evaluation sequence
MaxLen == 2
\* number of states of a pseudo-random generator (a finite state machine)
RngPeriod == 3

----------------------------------------------------------------------------
(* Values *)

NoneVal == [none |-> TRUE]

Raise(kind) == [raised |-> kind]

IsErr(v) == "raised" \in DOMAIN v

IsArr(v) == "shape" \in DOMAIN v

UnfitError == "ValueError: Need to fit the process to some training data first!"

ShapeError == "ValueError: shapes not aligned"

MeanDimError == "ValueError: mean must be 1 dimensional"

CovShapeError == "ValueError: cov must be 2 dimensional and square"

MeanCovError == "ValueError: mean and cov must have same length"

LinAlgError == "LinAlgError: Singular matrix"

TypeError == "TypeError: NoneType"

----------------------------------------------------------------------------
(* numpy arrays *)

\* np.array(seq): a 1-d array
Array1(seq) == [shape |-> <<Len(seq)>>, data |-> seq, den |-> 1]

\* np.array(seq)[:, None]: an n-by-1 column
Column(seq) == [shape |-> <<Len(seq), 1>>, data |-> seq, den |-> 1]

\* the r-by-c matrix with entry f[i, j] over the denominator d
Mat(r, c, f, d) ==
    [shape |-> <<r, c>>,
     data  |-> [q \in 1..(r * c) |-> f[((q - 1) \div c) + 1, ((q - 1) % c) + 1]],
     den   |-> d]

At(a, i, j) == a.data[(i - 1) * a.shape[2] + j]

\* np.atleast_2d: a 0-d array becomes 1-by-1, a 1-d array of length n becomes
\* the ROW 1-by-n, arrays of two dimensions are returned as they are
atleast_2d(a) ==
    IF Len(a.shape) = 0 THEN [a EXCEPT !.shape = <<1, 1>>]
    ELSE IF Len(a.shape) = 1 THEN [a EXCEPT !.shape = <<1, a.shape[1]>>]
    ELSE a

\* ndarray.squeeze(): drop the axes of length one
squeeze(a) == [a EXCEPT !.shape = SelectSeq(a.shape, LAMBDA d : d # 1)]

\* np.zeros(n)
zeros(n) == [shape |-> <<n>>, data |-> [q \in 1..n |-> 0], den |-> 1]

\* np.eye(n)
eye(n) == Mat(n, n, [i \in 1..n, j \in 1..n |-> IF i = j THEN 1 ELSE 0], 1)

\* ndarray.T of an array of two dimensions
T(a) ==
    Mat(a.shape[2], a.shape[1],
        [i \in 1..a.shape[2], j \in 1..a.shape[1] |-> At(a, j, i)], a.den)

\* scalar * array, the scalar an integer
Scale(s, a) == [a EXCEPT !.data = [q \in DOMAIN a.data |-> s * a.data[q]]]

\* a + b and a - b for arrays of the same shape
Add(a, b) ==
    [shape |-> a.shape,
     data  |-> [q \in DOMAIN a.data |-> a.data[q] * b.den + b.data[q] * a.den],
     den   |-> a.den * b.den]

Sub(a, b) == Add(a, Scale(-1, b))

RECURSIVE DotSum(_, _, _, _, _)
DotSum(a, b, i, j, k) ==
    IF k = 0 THEN 0 ELSE At(a, i, k) * At(b, k, j) + DotSum(a, b, i, j, k - 1)

\* np.dot of two arrays of two dimensions; raises when the inner lengths differ
dot(a, b) ==
    IF IsErr(a) THEN a
    ELSE IF IsErr(b) THEN b
    ELSE IF ~IsArr(a) \/ ~IsArr(b) THEN Raise(TypeError)
    ELSE IF a.shape[2] # b.shape[1] THEN Raise(ShapeError)
    ELSE Mat(a.shape[1], b.shape[2],
             [i \in 1..a.shape[1], j \in 1..b.shape[2]
                 |-> DotSum(a, b, i, j, a.shape[2])],
             a.den * b.den)

\* np.diag: the diagonal of a matrix, or the diagonal matrix of a 1-d array
diag(a) ==
    IF Len(a.shape) = 2
    THEN [shape |-> <<a.shape[1]>>,
          data  |-> [q \in 1..a.shape[1] |-> At(a, q, q)],
          den   |-> a.den]
    ELSE Mat(a.shape[1], a.shape[1],
             [i \in 1..a.shape[1], j \in 1..a.shape[1]
                 |-> IF i = j THEN a.data[i] ELSE 0],
             a.den)

\* np.sqrt, elementwise: kept symbolic (the root of an exact rational)
sqrt(a) == [sqrt_of |-> a]

\* the matrix a without row i and column j
Minor(a, i, j) ==
    Mat(a.shape[1] - 1, a.shape[2] - 1,
        [r \in 1..(a.shape[1] - 1), c \in 1..(a.shape[2] - 1)
            |-> At(a, IF r < i THEN r ELSE r + 1, IF c < j THEN c ELSE c + 1)],
        a.den)

Sign(q) == IF q % 2 = 0 THEN 1 ELSE -1

RECURSIVE DetNum(_)
RECURSIVE DetRow(_, _)
\* determinant of the numerators, by expansion along the first row
DetNum(a) == IF a.shape[1] = 0 THEN 1 ELSE DetRow(a, a.shape[2])

DetRow(a, j) ==
    IF j = 0 THEN 0
    ELSE Sign(1 + j) * At(a, 1, j) * DetNum(Minor(a, 1, j)) + DetRow(a, j - 1)

\* np.linalg.inv: the exact inverse adj(a) / det(a); raises on a singular matrix
inv(a) ==
    IF a.shape[1] # a.shape[2] THEN Raise("LinAlgError: not square")
    ELSE IF DetNum(a) = 0 THEN Raise(LinAlgError)
    ELSE LET n == a.shape[1]
             d == DetNum(a)
             \* (a.num / a.den)^-1 = a.den * adj(a.num) / det(a.num)
         IN  Mat(n, n,
                 [i \in 1..n, j \in 1..n
                     |-> a.den * Sign(i + j) * DetNum(Minor(a, j, i))],
                 d)

----------------------------------------------------------------------------
(* The two external capabilities: the kernel and the pseudo-random source *)

\* The covariance kernel handed to the constructor: a callable of two point
\* sets of n1 and n2 scalars returning the n1-by-n2 matrix of covariances.
\* It squeezes its arguments, so any array of n scalars is a set of n points.
\* The linear kernel k(a, b) = a * b is used.
kernel(X, Y) ==
    IF ~IsArr(X) \/ ~IsArr(Y) THEN Raise(TypeError)
    ELSE Mat(Len(X.data), Len(Y.data),
             [i \in 1..Len(X.data), j \in 1..Len(Y.data) |-> X.data[i] * Y.data[j]],
             1)

\* np.random.RandomState(seed): the generator is a finite state machine;
\* its state is a number below RngPeriod
RandomState(seed) == seed % RngPeriod

\* the c-th standard normal value (c = 0, 1, ...) a generator in state st yields
Gauss(st, c) == ((st + c) % RngPeriod) - 1

\* the state of a generator after it has yielded c values
Advance(st, c) == (st + c) % RngPeriod

RECURSIVE MvnSum(_, _, _, _, _, _)
\* sum over k of z[s][k] * cov[k][i], z the s-th row of standard normals
MvnSum(st, cov, n, s, i, k) ==
    IF k = 0 THEN 0
    ELSE Gauss(st, (s - 1) * n + (k - 1)) * At(cov, k, i)
         + MvnSum(st, cov, n, s, i, k - 1)

\* RandomState.multivariate_normal(mean, cov, size, check_valid='warn'):
\* the arguments are checked first, then size * n standard normals are drawn
\* and each sample is mean + z . A, with A a factor of cov (cov itself stands
\* for its factor here).  A cov that is not positive-semidefinite only warns.
\* Returns the generator's new state and the size-by-n array of samples.
multivariate_normal(st, mean, cov, size) ==
    IF Len(mean.shape) # 1 THEN [st |-> st, out |-> Raise(MeanDimError)]
    ELSE IF Len(cov.shape) # 2 \/ cov.shape[1] # cov.shape[2]
    THEN [st |-> st, out |-> Raise(CovShapeError)]
    ELSE IF mean.shape[1] # cov.shape[1]
    THEN [st |-> st, out |-> Raise(MeanCovError)]
    ELSE LET n == mean.shape[1]
         IN  [st  |-> Advance(st, size * n),
              out |-> Mat(size, n,
                          [s \in 1..size, i \in 1..n
                              |-> mean.data[i] * cov.den
                                  + mean.den * MvnSum(st, cov, n, s, i, n)],
                          mean.den * cov.den)]

\* np.random.randn(n): n standard normals from numpy's process-wide generator
randn(np, n) ==
    [np  |-> Advance(np, n),
     out |-> [shape |-> <<n>>, data |-> [q \in 1..n |-> Gauss(np, q - 1)], den |-> 1]]

----------------------------------------------------------------------------
(* GaussianProcessRegressor *)

zero_prior_mean(x) == zeros(x.shape[1])

\* __init__(kernel, random_state): random_state None makes RandomState(seed=0)
NewRegressor(random_state) ==
    [random_state |-> IF random_state = NoneVal THEN RandomState(0)
                      ELSE random_state.state,
     is_fit       |-> FALSE,
     train_x      |-> NoneVal,
     train_y      |-> NoneVal,
     k            |-> NoneVal,
     k_inv        |-> NoneVal,
     noise_level  |-> NoneVal]

\* what a call hands back: the regressor and the process-wide generator after
\* the call, the exception raised ("no" when it returned), the value returned
\* and the number of kernel invocations the call made
Result(self, np, raised, value, kernel_calls) ==
    [self |-> self, np |-> np,
     out  |-> [raised |-> raised, value |-> value, kernel_calls |-> kernel_calls]]

\* _sample(mean, cov, size): draws from self.random_state, transposed
sample(self, mean, cov, size) ==
    LET r == multivariate_normal(self.random_state, mean, cov, size)
    IN  [self |-> [self EXCEPT !.random_state = r.st],
         out  |-> IF IsErr(r.out) THEN r.out ELSE T(r.out)]

\* variant of sample_prior that caches the covariance it computed in self.k
sample_prior_caching(self, np, x, size, return_std) ==
    LET x2  == atleast_2d(x)
        cov == kernel(x2, x2)
        s   == sample([self EXCEPT !.k = cov], zero_prior_mean(x2), cov, size)
    IN  IF IsErr(s.out) THEN Result(s.self, np, s.out.raised, NoneVal, 1)
        ELSE Result(s.self, np, "no",
                    IF return_std
                    THEN [samples |-> s.out, std |-> sqrt(diag(cov))]
                    ELSE [samples |-> s.out],
                    1)

sample_prior(self, np, x, size, return_std) ==
    LET x2  == atleast_2d(x)
        cov == kernel(x2, x2)
        s   == sample(self, zero_prior_mean(x2), cov, size)
    IN  IF IsErr(s.out) THEN Result(s.self, np, s.out.raised, NoneVal, 1)
        ELSE Result(s.self, np, "no",
                    IF return_std
                    THEN [samples |-> s.out, std |-> sqrt(diag(cov))]
                    ELSE [samples |-> s.out],
                    1)

\* variant of fit_store that also clears the fit flag while fitting
fit_store_reset(self, x, y, noise_level) ==
    [self EXCEPT !.train_x = atleast_2d(x),
                 !.train_y = atleast_2d(y),
                 !.noise_level = noise_level,
                 !.is_fit = FALSE]

\* fit, lines 108-112: the arguments are stored before anything is computed
fit_store(self, x, y, noise_level) ==
    [self EXCEPT !.train_x = atleast_2d(x),
                 !.train_y = atleast_2d(y),
                 !.noise_level = noise_level]

\* variant of fit_k that reuses a cached matrix of the right size
fit_k_cached(self) ==
    LET k0 == kernel(self.train_x, self.train_x)
    IN  IF IsArr(self.k) /\ self.k.shape = k0.shape THEN self.k
        ELSE Add(k0, Scale(self.noise_level * self.noise_level, eye(k0.shape[1])))

\* fit, lines 113-114: the regularized kernel matrix of the stored inputs
fit_k(self) ==
    LET k0 == kernel(self.train_x, self.train_x)
    IN  Add(k0, Scale(self.noise_level * self.noise_level, eye(k0.shape[1])))

\* variant of fit_invert that sets the fit flag before it inverts
fit_invert_flag_first(self) ==
    LET ki == inv(self.k)
    IN  IF IsErr(ki) THEN [self |-> [self EXCEPT !.is_fit = TRUE], raised |-> ki.raised]
        ELSE [self   |-> [self EXCEPT !.k_inv = ki, !.is_fit = TRUE],
              raised |-> "no"]

\* fit, lines 116-117: invert, then mark the regressor fit
fit_invert(self) ==
    LET ki == inv(self.k)
    IN  IF IsErr(ki) THEN [self |-> self, raised |-> ki.raised]
        ELSE [self   |-> [self EXCEPT !.k_inv = ki, !.is_fit = TRUE],
              raised |-> "no"]

fit(self, np, x, y, noise_level) ==
    LET s1 == fit_store(self, x, y, noise_level)
        s2 == [s1 EXCEPT !.k = fit_k(s1)]
        r  == fit_invert(s2)
    IN  Result(r.self, np, r.raised, NoneVal, 1)

\* posterior_moments, lines 137-142, once the fit flag has been tested
moments(self, x) ==
    LET x2          == atleast_2d(x)
        k_star      == kernel(x2, self.train_x)
        k_star_star == kernel(x2, x2)
        mean        == dot(dot(k_star, self.k_inv), self.train_y)
        t           == dot(k_star, dot(self.k_inv, T(k_star)))
    IN  IF IsErr(k_star) THEN [raised |-> k_star.raised, kernel_calls |-> 1]
        ELSE IF IsErr(mean) THEN [raised |-> mean.raised, kernel_calls |-> 2]
        ELSE IF IsErr(t) THEN [raised |-> t.raised, kernel_calls |-> 2]
        ELSE [raised |-> "no", kernel_calls |-> 2,
              mean |-> mean, cov |-> Sub(k_star_star, t)]

posterior_moments(self, np, x) ==
    IF ~self.is_fit THEN Result(self, np, UnfitError, NoneVal, 0)
    ELSE LET m == moments(self, x)
         IN  IF m.raised # "no" THEN Result(self, np, m.raised, NoneVal, m.kernel_calls)
             ELSE Result(self, np, "no", [mean |-> m.mean, cov |-> m.cov], 2)

sample_posterior(self, np, x, size, return_std, reg) ==
    IF ~self.is_fit THEN Result(self, np, UnfitError, NoneVal, 0)
    ELSE LET pm == posterior_moments(self, np, x)
         IN  IF pm.out.raised # "no" THEN pm
             ELSE LET jit == randn(np, pm.out.value.cov.shape[1])
                      cov == Add(pm.out.value.cov, Scale(reg, diag(jit.out)))
                      s   == sample(self, squeeze(pm.out.value.mean), cov, size)
                  IN  IF IsErr(s.out)
                      THEN Result(s.self, jit.np, s.out.raised, NoneVal, 2)
                      ELSE Result(s.self, jit.np, "no",
                                  IF return_std
                                  THEN [samples |-> s.out, std |-> sqrt(diag(cov))]
                                  ELSE [samples |-> s.out],
                                  2)

\* variant of predict that jitters the covariance as sample_posterior does
predict_jitter(self, np, x, return_std) ==
    IF ~self.is_fit THEN Result(self, np, UnfitError, NoneVal, 0)
    ELSE LET pm == posterior_moments(self, np, x)
         IN  IF pm.out.raised # "no" THEN pm
             ELSE LET jit == randn(np, pm.out.value.cov.shape[1])
                      cov == Add(pm.out.value.cov, diag(jit.out))
                  IN  Result(self, jit.np, "no",
                             IF return_std
                             THEN [mean |-> pm.out.value.mean,
                                   std  |-> sqrt(diag(cov))]
                             ELSE [mean |-> pm.out.value.mean],
                             2)

predict(self, np, x, return_std) ==
    IF ~self.is_fit THEN Result(self, np, UnfitError, NoneVal, 0)
    ELSE LET pm == posterior_moments(self, np, x)
         IN  IF pm.out.raised # "no" THEN pm
             ELSE Result(self, np, "no",
                         IF return_std
                         THEN [mean |-> pm.out.value.mean,
                               std  |-> sqrt(diag(pm.out.value.cov))]
                         ELSE [mean |-> pm.out.value.mean],
                         2)

----------------------------------------------------------------------------
(* The program: regressors driven by a caller *)

VARIABLES
    gp,         \* the regressor
    twin,       \* a second regressor, built like gp
    np_random,  \* state of numpy's process-wide generator (np.random)
    last,       \* the last call made on gp: its arguments and outcome, and the
                \* regressor and the process-wide generator as they were before it
    last_twin,  \* the outcome of the same call made on twin
    ever_fit    \* has a fit call on gp returned without raising?

vars == <<gp, twin, np_random, last, last_twin, ever_fit>>

\* the points start, start + 1, ... (n of them)
Grid(n, start) == [q \in 1..n |-> start + q - 1]

\* the targets of a parabola over these points
Squares(seq) == [q \in DOMAIN seq |-> seq[q] * seq[q]]

\* training sets: inputs and targets as columns, the shape (n, 1) fit documents
TrainSets ==
    {[x |-> Column(Grid(n, 1)), y |-> Column(Squares(Grid(n, 1)))] : n \in 1..MaxLen}

\* evaluation points, as a column or flat (np.atleast_2d makes the same 1-by-1
\* array of one flat point and of a one-point column, so one of them is kept)
EvalPoints ==
    {Column(Grid(n, 1)) : n \in 1..MaxLen} \cup {Array1(Grid(n, 1)) : n \in 2..MaxLen}

NoiseLevels == {0, 1}

\* the jitter amplitude `reg`: the default, 1e-12, taken as the unit
Regs == {1}

\* the `size` argument: the default 1, and several samples
Sizes == {1, 2}

\* the return_std argument of the sampling calls: the default
SampleReturnStd == {FALSE}

\* the random_state argument of the constructor: None, or a seeded RandomState
RandomStates == {NoneVal, [state |-> RandomState(1)]}

NoCall == [op |-> "none"]

NoOut == [raised |-> "no", value |-> NoneVal, kernel_calls |-> 0]

Init ==
    /\ \E rs \in RandomStates :
          /\ gp = NewRegressor(rs)
          /\ twin = NewRegressor(rs)
    /\ np_random \in 0..(RngPeriod - 1)
    /\ last = [call |-> NoCall, out |-> NoOut, before |-> gp, np_before |-> np_random]
    /\ last_twin = NoOut
    /\ ever_fit = FALSE

\* one call on a regressor
Apply(self, np, c) ==
    CASE c.op = "fit" -> fit(self, np, c.x, c.y, c.noise_level)
      [] c.op = "sample_prior" -> sample_prior(self, np, c.x, c.size, c.return_std)
      [] c.op = "posterior_moments" -> posterior_moments(self, np, c.x)
      [] c.op = "sample_posterior" ->
             sample_posterior(self, np, c.x, c.size, c.return_std, c.reg)
      [] c.op = "predict" -> predict(self, np, c.x, c.return_std)

Record(c, r) ==
    /\ last' = [call |-> c, out |-> r.out, before |-> gp, np_before |-> np_random]
    /\ ever_fit' = (ever_fit \/ (c.op = "fit" /\ r.out.raised = "no"))

\* the caller makes the call c on gp
Do(c) ==
    \E r \in {Apply(gp, np_random, c)} :
        /\ gp' = r.self
        /\ np_random' = r.np
        /\ Record(c, r)
        /\ UNCHANGED <<twin, last_twin>>

\* the caller makes the call c on gp and then on twin
DoBoth(c) ==
    \E a \in {Apply(gp, np_random, c)} : \E b \in {Apply(twin, a.np, c)} :
        /\ gp' = a.self
        /\ twin' = b.self
        /\ np_random' = b.np
        /\ Record(c, a)
        /\ last_twin' = b.out

FitCalls ==
    {[op |-> "fit", x |-> t.x, y |-> t.y, noise_level |-> n]
     : t \in TrainSets, n \in NoiseLevels}

SamplePriorCalls ==
    {[op |-> "sample_prior", x |-> x, size |-> s, return_std |-> b]
     : x \in EvalPoints, s \in Sizes, b \in SampleReturnStd}

PosteriorMomentsCalls == {[op |-> "posterior_moments", x |-> x] : x \in EvalPoints}

SamplePosteriorCalls ==
    UNION {{[op |-> "sample_posterior", x |-> x, size |-> s, return_std |-> b, reg |-> g]
            : x \in EvalPoints, s \in Sizes} : b \in SampleReturnStd, g \in Regs}

PredictCalls ==
    {[op |-> "predict", x |-> x, return_std |-> b] : x \in EvalPoints, b \in BOOLEAN}

Fit == \E c \in FitCalls : Do(c)

SamplePrior == \E c \in SamplePriorCalls : Do(c)

PosteriorMoments == \E c \in PosteriorMomentsCalls : Do(c)

SamplePosterior == \E c \in SamplePosteriorCalls : Do(c)

Predict == \E c \in PredictCalls : Do(c)

Next == Fit \/ SamplePrior \/ PosteriorMoments \/ SamplePosterior \/ Predict

Spec == Init /\ [][Next]_vars

\* two regressors built alike and driven by the same calls
TwinFit == \E c \in FitCalls : DoBoth(c)

TwinSamplePrior == \E c \in SamplePriorCalls : DoBoth(c)

TwinPosteriorMoments == \E c \in PosteriorMomentsCalls : DoBoth(c)

TwinSamplePosterior == \E c \in SamplePosteriorCalls : DoBoth(c)

TwinPredict == \E c \in PredictCalls : DoBoth(c)

TwinNext ==
    TwinFit \/ TwinSamplePrior \/ TwinPosteriorMoments \/ TwinSamplePosterior
    \/ TwinPredict

TwinSpec == Init /\ [][TwinNext]_vars

----------------------------------------------------------------------------
(* Properties *)

\* the training-state fields of a regressor
Fields(self) ==
    [train_x |-> self.train_x, train_y |-> self.train_y,
     noise_level |-> self.noise_level, k |-> self.k, k_inv |-> self.k_inv,
     is_fit |-> self.is_fit]

PosteriorOps == {"posterior_moments", "sample_posterior", "predict"}

SamplingOps == {"sample_prior", "sample_posterior"}

\* number of points in an argument x
NPoints(x) == Len(x.data)

\* ki is the exact inverse of k
IsInverse(k, ki) ==
    LET p == dot(k, ki)
    IN  /\ IsArr(k) /\ IsArr(ki)
        /\ ~IsErr(p)
        /\ p.den # 0
        /\ p = Scale(p.den, [eye(k.shape[1]) EXCEPT !.den = p.den])

\* C1: on a regressor on which no fit call has succeeded (one on which fit
\* raised included), posterior_moments, sample_posterior and predict raise the
\* unfit-model error without invoking the kernel, and change neither a field of
\* the regressor (its random source included) nor the process-wide generator.
C1_UnfitQueriesFail ==
    (~ever_fit /\ last.call.op \in PosteriorOps)
        => /\ last.out.raised = UnfitError
           /\ last.out.kernel_calls = 0
           /\ gp = last.before
           /\ np_random = last.np_before

C1_Witness ==
    /\ ~ever_fit
    /\ IsArr(gp.train_x)
    /\ last.call.op = "sample_posterior"
    /\ last.out.raised = UnfitError

\* C2: whenever the fit flag is true, the cached K is Kernel(train_x, train_x)
\* + noise_level^2 * I for the stored train_x and noise level, and the cached
\* K_inv is the inverse of that K.
C2_CachedInverseConsistent ==
    gp.is_fit => (gp.k = fit_k(gp) /\ IsInverse(gp.k, gp.k_inv))

\* C3: the fit flag is false until a fit call returns without raising, true
\* from then on, whatever calls follow.
C3_FlagTracksSuccessfulFit == gp.is_fit = ever_fit

C3_Witness ==
    /\ gp.is_fit
    /\ last.call.op = "fit"
    /\ last.out.raised = LinAlgError

\* C4: two regressors built with identically seeded random sources and driven
\* by the same calls return identical samples from every sample_prior and
\* sample_posterior call.
C4_TwinSamplesAgree ==
    last.call.op \in SamplingOps => last.out = last_twin

\* C5: every call other than fit leaves train_x, train_y, the noise level, K,
\* K_inv and the fit flag as they were, whether it returns or raises, and
\* sample_prior is never refused as unfit.
C5_OnlyFitMutates ==
    /\ last.call.op # "fit" => Fields(gp) = Fields(last.before)
    /\ last.call.op = "sample_prior" => last.out.raised # UnfitError

C5_Witness ==
    /\ ~gp.is_fit
    /\ IsArr(gp.train_x)
    /\ last.call.op = "sample_prior"
    /\ last.out.raised = "no"

\* C6: after a fit that returns, the training-state fields are those of a
\* freshly constructed regressor after that one fit, and so is every
\* prediction and every pair of posterior moments.
C6_FitReplacesState ==
    (last.call.op = "fit" /\ last.out.raised = "no")
        => LET fresh == fit(NewRegressor(NoneVal), np_random,
                            last.call.x, last.call.y, last.call.noise_level).self
           IN  /\ Fields(gp) = Fields(fresh)
               /\ \A c \in PredictCalls \cup PosteriorMomentsCalls :
                     Apply(gp, np_random, c).out = Apply(fresh, np_random, c).out

C6_Witness ==
    /\ last.call.op = "fit"
    /\ last.out.raised = "no"
    /\ last.before.is_fit
    /\ last.before.train_x # gp.train_x

\* the regressor with its random source put in a fixed state
Reseeded(self) == [self EXCEPT !.random_state = 0]

\* C7: predict draws no random number and applies no jitter; what it returns
\* is decided by the training-state fields and its arguments alone (and is the
\* mean of posterior_moments), and no call but fit changes those fields, so two
\* predict calls with the same arguments and no fit between them agree.
C7_PredictDeterministic ==
    /\ last.call.op # "fit" => Fields(gp) = Fields(last.before)
    /\ last.call.op = "predict"
          => /\ gp = last.before
             /\ np_random = last.np_before
             /\ last.out = predict(Reseeded(last.before), 0, last.call.x,
                                   last.call.return_std).out
             /\ last.out.raised = "no"
                   => last.out.value.mean
                        = posterior_moments(last.before, last.np_before,
                                            last.call.x).out.value.mean

C7_Witness ==
    /\ last.call.op = "predict"
    /\ last.out.raised = "no"
    /\ last.call.return_std
    /\ gp.random_state # 0

\* C8: sample_prior(x, size = s) on n >= 1 points, flat or as a column, returns
\* an n-by-s matrix; so does sample_posterior(x, size = s) once a fit returned.
C8_SampleShape ==
    (last.call.op = "sample_prior"
     \/ (last.call.op = "sample_posterior" /\ last.before.is_fit))
        => /\ last.out.raised = "no"
           /\ last.out.value.samples.shape = <<NPoints(last.call.x), last.call.size>>

\* C9: a fit call that raises leaves train_x, train_y, the noise level, K,
\* K_inv and the fit flag as they were before the call.
C9_FailedFitChangesNothing ==
    (last.call.op = "fit" /\ last.out.raised # "no")
        => Fields(gp) = Fields(last.before)

\* C10: the regressor's own random source is the only generator any call
\* reads or advances: numpy's process-wide generator is never touched.
C10_OnlyOwnRandomSource == np_random = last.np_before

====
